---- MODULE Spec2Model ----
(***************************************************************************)
(* Video School progress tracker: the lesson store (sqlite tables lessons, *)
(* tags, lesson_tags, user_settings, streak_history), the folder sync      *)
(* engine, status updates, the TTL cache and the streak statistics.        *)
(*                                                                         *)
(* Conventions.  SQL NULL / Python None is NULL.  A file name is a small   *)
(* integer: 0 is a name parse_func rejects, n > 0 parses to author n,      *)
(* title n, lesson_date n.  A content fingerprint (md5 of head and tail)   *)
(* is an integer > 0; NoHash is compute_file_hash returning None.  An      *)
(* optional record (parse_func's result) is <<>> or <<r>>.  Time           *)
(* is counted in days and seconds.                                         *)
(***************************************************************************)
EXTENDS Integers, Sequences, FiniteSets, TLC

VARIABLES
    lessons,          \* the lessons table: the rows in id order (id = index)
    tags,             \* the tags table: a set of [id, name]
    tag_seq,          \* the AUTOINCREMENT high-water mark of tags.id
    lesson_tags,      \* the lesson_tags table: a set of <<lesson_id, tag_id>>
    user_settings,    \* the user_settings table: key -> value
    cache,            \* DatabaseBase._cache: key -> value
    cache_timestamp,  \* DatabaseBase._cache_timestamp: key -> time of _set_cache
    now,              \* the wall clock, in seconds
    streak_history,   \* the streak_history table: the rows in id order
    ret,              \* the last query answered: which one, its value
    filename,         \* the file name handed to parse_filename, as characters
    session_state,    \* st.session_state: key -> value
    singleton,        \* the class DatabaseBase: _instance, _lock, and the fields of the instance
    threads           \* the threads that construct a DatabaseManager: their position and locals

store == <<lessons, tags, tag_seq, lesson_tags, user_settings>>

vars == <<lessons, tags, tag_seq, lesson_tags, user_settings, cache, cache_timestamp,
          now, streak_history, ret,
          filename,
          session_state, singleton, threads>>

\* ---------------------------------------------------------------- bounds
MaxFiles == 2
MaxName  == 2
MaxHash  == 2
MaxMtime == 2
MaxTagId == 2
MaxHistory == 1
MaxDay   == 2
MaxGap   == 2
MaxRun   == 367
StartDay == 400

\* ------------------------------------------------------------- constants
NULL == -1
NoHash == 0
SecondsPerDay == 86400
CacheTtl == 5
ActivityDays == 365

Statuses == {"New", "In Progress", "Completed", "Archived"}

Names    == 0 .. MaxName
Hashes   == 1 .. MaxHash
Mtimes   == 1 .. MaxMtime
Transcripts == {1}

\* the folder argument of sync_folder: an existing directory, a path that is
\* no directory, and a directory os.scandir cannot open
Folders == {"lib", "missing", "denied"}

\* a faulty variant: every path passes for a directory
IsDirUnchecked(folder) == TRUE

IsDir(folder) == folder # "missing"

ScandirRaises(folder) == folder = "denied"

\* ------------------------------------------------------------ filesystem
\* one .mp4 directory entry: its name, the fingerprint of its content
\* (NoHash when it cannot be read), its st_mtime and the text of the .srt
\* beside it (NULL when there is none or it cannot be decoded)
Readable == [name : Names, hash : Hashes, mtime : Mtimes,
             srt : Transcripts \cup {NULL}]

\* of an entry that cannot be hashed the scan keeps nothing
Unreadable == [name : Names, hash : {NoHash}, mtime : {1}, srt : {NULL}]

Entries == Readable \cup Unreadable

RECURSIVE SeqsUpTo(_, _)
SeqsUpTo(S, n) ==
    IF n = 0 THEN {<<>>}
    ELSE LET shorter == SeqsUpTo(S, n - 1)
         IN  shorter \cup {Append(s, e) : s \in {t \in shorter : Len(t) = n - 1}, e \in S}

\* the listings os.scandir can yield: names are unique within a directory,
\* the order is the file system's
Listings ==
    {s \in SeqsUpTo(Entries, MaxFiles) :
        \A i, j \in 1 .. Len(s) : i # j => s[i].name # s[j].name}

\* parse_func(filename): None, or the parsed metadata
ParseFunc(name) ==
    IF name = 0 THEN <<>>
    ELSE <<[author |-> name, title |-> name, lesson_date |-> name]>>

Filepath(folder, name) == <<folder, name>>

\* ------------------------------------------------------------ sync_folder
ZeroStats == [added |-> 0, updated |-> 0, archived |-> 0, errors |-> 0, unchanged |-> 0]

\* the scan loop: entries that hash go to file_data, the others count as errors
FileData(entries) == SelectSeq(entries, LAMBDA e : e.hash # NoHash)

ScanErrors(entries) == Len(entries) - Len(FileData(entries))

\* existing_lookup[file_hash]: the stored row with that hash (file_hash is UNIQUE)
ExistingLookup(tbl, h) == tbl[CHOOSE i \in DOMAIN tbl : tbl[i].file_hash = h]

InLookup(tbl, h) == \E i \in DOMAIN tbl : tbl[i].file_hash = h

NeedsUpdate(existing, folder, f) ==
    \/ existing.filepath # Filepath(folder, f.name)
    \/ existing.file_mtime # f.mtime
    \/ (f.srt # NULL /\ existing.transcript = NULL)

\* the classification loop over file_data against the rows read before it
RECURSIVE Classify(_, _, _, _, _)
Classify(tbl, folder, file_data, i, acc) ==
    IF i > Len(file_data) THEN acc
    ELSE
      LET f == file_data[i]
          parsed == ParseFunc(f.name)
      IN
      IF parsed = <<>>
      THEN Classify(tbl, folder, file_data, i + 1,
                    [acc EXCEPT !.stats.errors = @ + 1])
      ELSE
        LET seen == [acc EXCEPT !.current_hashes = @ \cup {f.hash}]
        IN
        IF InLookup(tbl, f.hash)
        THEN
          LET existing == ExistingLookup(tbl, f.hash)
          IN
          IF NeedsUpdate(existing, folder, f)
          THEN Classify(tbl, folder, file_data, i + 1,
                 [seen EXCEPT
                    !.to_update = Append(@,
                       [id |-> existing.id, filename |-> f.name,
                        filepath |-> Filepath(folder, f.name), mtime |-> f.mtime,
                        transcript |-> IF f.srt # NULL THEN f.srt
                                       ELSE existing.transcript]),
                    !.stats.updated = @ + 1])
          ELSE Classify(tbl, folder, file_data, i + 1,
                 [seen EXCEPT !.stats.unchanged = @ + 1])
        ELSE Classify(tbl, folder, file_data, i + 1,
               [seen EXCEPT
                  !.to_insert = Append(@,
                     [file_hash |-> f.hash, filepath |-> Filepath(folder, f.name),
                      filename |-> f.name, author |-> parsed[1].author,
                      title |-> parsed[1].title,
                      lesson_date |-> parsed[1].lesson_date,
                      mtime |-> f.mtime, transcript |-> f.srt]),
                  !.stats.added = @ + 1])

\* INSERT INTO lessons ... VALUES (..., 'New', ?): AUTOINCREMENT id, the
\* column defaults for completed_at
InsertRow(tbl, r) ==
    Append(tbl, [id |-> Len(tbl) + 1, file_hash |-> r.file_hash,
                 filepath |-> r.filepath, filename |-> r.filename,
                 author |-> r.author, title |-> r.title,
                 lesson_date |-> r.lesson_date, file_mtime |-> r.mtime,
                 status |-> "New", completed_at |-> NULL,
                 transcript |-> r.transcript])

\* executemany(INSERT): row by row; file_hash UNIQUE makes a second row with
\* a stored hash fail (ok = FALSE is sqlite3.IntegrityError)
RECURSIVE ApplyInserts(_, _, _)
ApplyInserts(tbl, to_insert, i) ==
    IF i > Len(to_insert) THEN [ok |-> TRUE, tbl |-> tbl]
    ELSE IF InLookup(tbl, to_insert[i].file_hash)
         THEN [ok |-> FALSE, tbl |-> tbl]
         ELSE ApplyInserts(InsertRow(tbl, to_insert[i]), to_insert, i + 1)

\* a faulty variant: the update re-derives the metadata from the new name
UpdateRowReparses(row, u) ==
    LET parsed == ParseFunc(u.filename)
    IN  [row EXCEPT !.filename = u.filename, !.filepath = u.filepath,
                    !.file_mtime = u.mtime,
                    !.transcript = IF u.transcript # NULL THEN u.transcript ELSE @,
                    !.author = parsed[1].author, !.title = parsed[1].title,
                    !.lesson_date = parsed[1].lesson_date]

\* a faulty variant: the update also writes the insert's status default
UpdateRowResetsStatus(row, u) ==
    [row EXCEPT !.filename = u.filename, !.filepath = u.filepath,
                !.file_mtime = u.mtime,
                !.transcript = IF u.transcript # NULL THEN u.transcript ELSE @,
                !.status = "New", !.completed_at = NULL]

\* UPDATE lessons SET filename, filepath, file_mtime,
\*   transcript = COALESCE(?, transcript) WHERE id = ?
UpdateRow(row, u) ==
    [row EXCEPT !.filename = u.filename, !.filepath = u.filepath,
                !.file_mtime = u.mtime,
                !.transcript = IF u.transcript # NULL THEN u.transcript ELSE @]

RECURSIVE ApplyUpdates(_, _, _)
ApplyUpdates(tbl, to_update, i) ==
    IF i > Len(to_update) THEN tbl
    ELSE ApplyUpdates([tbl EXCEPT ![to_update[i].id] = UpdateRow(@, to_update[i])],
                      to_update, i + 1)

\* UPDATE lessons SET status = 'Archived'
\*   WHERE file_hash NOT IN (current_hashes) AND status != 'Archived'
ToArchive(tbl, current_hashes) ==
    {i \in DOMAIN tbl : tbl[i].file_hash \notin current_hashes
                        /\ tbl[i].status # "Archived"}

ArchiveRow(row) == [row EXCEPT !.status = "Archived"]

ApplyArchive(tbl, current_hashes) ==
    [i \in DOMAIN tbl |->
        IF i \in ToArchive(tbl, current_hashes) THEN ArchiveRow(tbl[i]) ELSE tbl[i]]

\* a faulty variant: the rows written before the failing statement stay
RollbackKeepsWritten(before, written) == written

\* `with conn:` left by an exception: the transaction is rolled back
Rollback(before, written) == before

\* sync_folder(folder_path, parse_func) on a directory listing `entries`:
\* what it returns (raised: the exception left the call) and the table after
SyncResult(tbl, folder, entries) ==
    IF ~IsDir(folder)
    THEN [raised |-> FALSE, stats |-> ZeroStats, tbl |-> tbl]
    ELSE IF ScandirRaises(folder)
    THEN [raised |-> FALSE, stats |-> [ZeroStats EXCEPT !.errors = 1], tbl |-> tbl]
    ELSE
      LET file_data == FileData(entries)
          scanned == [ZeroStats EXCEPT !.errors = ScanErrors(entries)]
      IN
      IF file_data = <<>>
      THEN [raised |-> FALSE, stats |-> scanned, tbl |-> tbl]
      ELSE
        LET c == Classify(tbl, folder, file_data, 1,
                          [to_insert |-> <<>>, to_update |-> <<>>,
                           current_hashes |-> {}, stats |-> scanned])
            ins == ApplyInserts(tbl, c.to_insert, 1)
        IN
        IF ~ins.ok
        THEN [raised |-> TRUE, stats |-> ZeroStats, tbl |-> Rollback(tbl, ins.tbl)]
        ELSE
          LET upd == ApplyUpdates(ins.tbl, c.to_update, 1)
          IN
          IF c.current_hashes = {}
          THEN [raised |-> FALSE, stats |-> c.stats, tbl |-> upd]
          ELSE [raised |-> FALSE,
                stats |-> [c.stats EXCEPT
                             !.archived = Cardinality(ToArchive(upd, c.current_hashes))],
                tbl |-> ApplyArchive(upd, c.current_hashes)]

\* ---------------------------------------------------------------- clock
\* DATE(ts) of sqlite, datetime.date() of Python
DateOf(ts) == ts \div SecondsPerDay

\* ----------------------------------------------------------- update_status
\* a faulty variant: completed_at is written only when there is one to write
SetStatusKeepsCompletedAt(row, status, completed_at) ==
    [row EXCEPT !.status = status,
                !.completed_at = IF completed_at = NULL THEN @ ELSE completed_at]

\* UPDATE lessons SET status = ?, completed_at = ? WHERE id = ?
SetStatus(row, status, completed_at) ==
    [row EXCEPT !.status = status, !.completed_at = completed_at]

\* update_status(lesson_id, status) at time t: what it returns, the table after
UpdateStatusResult(tbl, lesson_id, status, t) ==
    IF status \notin {"New", "In Progress", "Completed"}
    THEN [ret |-> FALSE, tbl |-> tbl]
    ELSE
      LET completed_at == IF status = "Completed" THEN t ELSE NULL
      IN  [ret |-> TRUE,
           tbl |-> [i \in DOMAIN tbl |->
                      IF tbl[i].id = lesson_id
                      THEN SetStatus(tbl[i], status, completed_at)
                      ELSE tbl[i]]]

\* get_lesson_by_id: the row, or None
GetLessonById(tbl, lesson_id) ==
    IF \E i \in DOMAIN tbl : tbl[i].id = lesson_id
    THEN <<tbl[CHOOSE i \in DOMAIN tbl : tbl[i].id = lesson_id]>>
    ELSE <<>>

\* ------------------------------------------------------------------ cache
EmptyMap == [k \in {} |-> NULL]

MapSet(m, key, value) ==
    [k \in DOMAIN m \cup {key} |-> IF k = key THEN value ELSE m[k]]

\* a faulty variant: an entry is still valid when it is exactly the TTL old
IsCacheValidAtTtl(ts, key, t) ==
    /\ key \in DOMAIN ts
    /\ t - ts[key] <= CacheTtl

\* _is_cache_valid(key) at time t
IsCacheValid(ts, key, t) ==
    /\ key \in DOMAIN ts
    /\ t - ts[key] < CacheTtl

\* ------------------------------------------------------------------- tags
\* str.strip() on a name given as a sequence of characters
RECURSIVE LStrip(_)
LStrip(name) ==
    IF name # <<>> /\ Head(name) = " " THEN LStrip(Tail(name)) ELSE name

RECURSIVE RStrip(_)
RStrip(name) ==
    IF name # <<>> /\ name[Len(name)] = " "
    THEN RStrip(SubSeq(name, 1, Len(name) - 1))
    ELSE name

Strip(name) == RStrip(LStrip(name))

\* SELECT id FROM tags WHERE name = ?
TagIdByName(tgs, name) ==
    IF \E t \in tgs : t.name = name
    THEN (CHOOSE t \in tgs : t.name = name).id
    ELSE NULL

\* a faulty variant: None for a name that is already stored
CreateTagResultNoneIfExists(tgs, seq, raw) ==
    LET name == Strip(raw)
    IN  IF name = <<>> \/ \E t \in tgs : t.name = name
        THEN [ret |-> NULL, inserted |-> FALSE, tags |-> tgs, seq |-> seq]
        ELSE [ret |-> seq + 1, inserted |-> TRUE,
              tags |-> tgs \cup {[id |-> seq + 1, name |-> name]}, seq |-> seq + 1]

\* create_tag(name): ret is the tag id or None; inserted tells whether the
\* INSERT went through (and invalidate_cache was called)
CreateTagResult(tgs, seq, raw) ==
    LET name == Strip(raw)
    IN  IF name = <<>>
        THEN [ret |-> NULL, inserted |-> FALSE, tags |-> tgs, seq |-> seq]
        ELSE IF \E t \in tgs : t.name = name
        THEN [ret |-> TagIdByName(tgs, name), inserted |-> FALSE,
              tags |-> tgs, seq |-> seq]
        ELSE [ret |-> seq + 1, inserted |-> TRUE,
              tags |-> tgs \cup {[id |-> seq + 1, name |-> name]}, seq |-> seq + 1]

\* get_or_create_tag(name)
GetOrCreateTagResult(tgs, seq, raw) ==
    LET name == Strip(raw)
    IN  IF name = <<>>
        THEN [ret |-> NULL, inserted |-> FALSE, tags |-> tgs, seq |-> seq]
        ELSE IF TagIdByName(tgs, name) # NULL
        THEN [ret |-> TagIdByName(tgs, name), inserted |-> FALSE,
              tags |-> tgs, seq |-> seq]
        ELSE CreateTagResult(tgs, seq, name)

\* the INSERT INTO lesson_tags goes through: the pair is new (PRIMARY KEY) and
\* both ids exist (FOREIGN KEY, PRAGMA foreign_keys = ON)
CanAddTag(tbl, tgs, lt, lesson_id, tag_id) ==
    /\ <<lesson_id, tag_id>> \notin lt
    /\ \E i \in DOMAIN tbl : tbl[i].id = lesson_id
    /\ \E t \in tgs : t.id = tag_id

\* get_lessons_by_tag_ids(tag_ids): GROUP BY lesson_id
\*   HAVING COUNT(DISTINCT tag_id) = len(tag_ids), over lesson_tags alone
GetLessonsByTagIds(lt, tag_ids) ==
    IF tag_ids = <<>> THEN {}
    ELSE LET wanted == {tag_ids[k] : k \in DOMAIN tag_ids}
         IN  {l \in {p[1] : p \in lt} :
                Cardinality({p \in lt : p[1] = l /\ p[2] \in wanted}) = Len(tag_ids)}

\* ---------------------------------------------------------------- queries
NotArchived(tbl) == {i \in DOMAIN tbl : tbl[i].status # "Archived"}

WithStatus(tbl, status) == {i \in DOMAIN tbl : tbl[i].status = status}

\* get_stats, computed: counts by status over the rows that are not
\* Archived; completion_rate = completed / total * 100 is kept as a fraction
ComputeStats(tbl) ==
    LET total == Cardinality(NotArchived(tbl))
        completed == Cardinality(WithStatus(tbl, "Completed"))
    IN  [total |-> total, completed |-> completed,
         in_progress |-> Cardinality(WithStatus(tbl, "In Progress")),
         new |-> Cardinality(WithStatus(tbl, "New")),
         completion_rate |-> IF total > 0 THEN <<completed * 100, total>> ELSE <<0, 1>>]

\* get_in_progress_lessons(limit), computed: the rows, as a set (the limit of
\* the callers, 10, is above the number of rows here)
ComputeInProgress(tbl) == {tbl[i] : i \in WithStatus(tbl, "In Progress")}

\* strftime('%Y', lesson_date), strftime('%m', lesson_date)
YearOf(lesson_date) == lesson_date

MonthOf(lesson_date) == ((lesson_date - 1) % 12) + 1

\* get_years_with_lessons, computed
ComputeYears(tbl) == {YearOf(tbl[i].lesson_date) : i \in NotArchived(tbl)}

\* get_all_tags, computed
ComputeAllTags(tgs) == tgs

\* what a cached getter returns at time t, and the cache after the call
CachedGet(c, ts, key, fresh, t) ==
    IF IsCacheValid(ts, key, t) /\ key \in DOMAIN c
    THEN [ret |-> c[key], cache |-> c, cache_timestamp |-> ts]
    ELSE [ret |-> fresh, cache |-> MapSet(c, key, fresh),
          cache_timestamp |-> MapSet(ts, key, t)]

\* the filters of get_paginated_lessons and search_transcripts; None is
\* NULL (<<>> for the lists), and a falsy filter adds no condition
FilterMatch(row, f) ==
    /\ row.status # "Archived"
    /\ (f.status_filter # <<>> =>
          \E k \in DOMAIN f.status_filter : row.status = f.status_filter[k])
    /\ (f.author_filter # NULL => row.author = f.author_filter)
    /\ (f.date_from # NULL => row.lesson_date >= f.date_from)
    /\ (f.date_to # NULL => row.lesson_date <= f.date_to)
    /\ (f.search_query # NULL => row.title = f.search_query)
    /\ (f.year_filter # NULL => YearOf(row.lesson_date) = f.year_filter)
    /\ (f.month_filter # NULL => MonthOf(row.lesson_date) = f.month_filter)

\* JOIN lesson_tags ... WHERE lt.tag_id IN (tag_ids) GROUP BY lessons.id
\*   HAVING COUNT(DISTINCT lt.tag_id) = len(tag_ids)
TagMatch(lt, lesson_id, tag_ids) ==
    tag_ids # <<>> =>
        Cardinality({p \in lt : p[1] = lesson_id
                                /\ \E k \in DOMAIN tag_ids : p[2] = tag_ids[k]})
          = Len(tag_ids)

\* get_paginated_lessons: the ids of the rows of all its pages; total is
\* their number
PaginatedLessons(tbl, lt, f) ==
    {i \in DOMAIN tbl : FilterMatch(tbl[i], f) /\ TagMatch(lt, tbl[i].id, f.tag_ids)}

\* search_transcripts(query, ...): a query is the transcript text it occurs in
SearchTranscripts(tbl, lt, query, f) ==
    IF query = NULL THEN {}
    ELSE {i \in DOMAIN tbl :
            /\ FilterMatch(tbl[i], f) /\ TagMatch(lt, tbl[i].id, f.tag_ids)
            /\ tbl[i].transcript # NULL
            /\ tbl[i].transcript = query}

\* the rows get_lesson_of_day, get_random_lesson and get_priority_suggestions
\* draw from (ORDER BY RANDOM())
LessonOfDayPool(tbl) == WithStatus(tbl, "New") \cup WithStatus(tbl, "In Progress")

RandomLessonPool(tbl) == NotArchived(tbl)

PrioritySuggestionsPool(tbl) ==
    WithStatus(tbl, "In Progress") \cup WithStatus(tbl, "New")

\* ---------------------------------------------------------------- streaks
\* get_activity_data(days) at time t: date -> number of Completed lessons of
\* that date, for the dates not older than `days` days (completed_at, a
\* 'YYYY-MM-DD HH:MM:SS' text, compared with the text of DATE('now', '-N days'))
GetActivityData(tbl, days, t) ==
    LET rows == {i \in DOMAIN tbl :
                    /\ tbl[i].status = "Completed"
                    /\ tbl[i].completed_at # NULL
                    /\ DateOf(tbl[i].completed_at) >= DateOf(t) - days}
    IN  [d \in {DateOf(tbl[i].completed_at) : i \in rows} |->
            Cardinality({i \in rows : DateOf(tbl[i].completed_at) = d})]

Max(S) == CHOOSE x \in S : \A y \in S : y <= x

\* the while loop of get_current_streak, by its result: it counts one day for
\* every date from current_check back to the first date outside date_set
WalkBack(date_set, current_check, streak) ==
    IF current_check \notin date_set THEN streak
    ELSE LET lowest == CHOOSE x \in date_set : \A y \in date_set : x <= y
             stop == Max({d \in (lowest - 1) .. current_check :
                              d \notin date_set})
         IN  streak + (current_check - stop)

\* get_current_streak() at time t
GetCurrentStreak(tbl, t) ==
    LET activity == GetActivityData(tbl, ActivityDays, t)
        dates == DOMAIN activity
        today == DateOf(t)
    IN  IF dates = {} THEN 0
        ELSE IF Max(dates) = today THEN WalkBack(dates, today - 1, 1)
        ELSE IF Max(dates) = today - 1 THEN WalkBack(dates, today - 2, 1)
        ELSE 0

\* get_best_streak() at time t: MAX(streak_length) of the history, or 0, and
\* the current streak
GetBestStreak(tbl, hist, t) ==
    LET db_best == IF hist = <<>> THEN 0
                   ELSE Max({hist[i].streak_length : i \in DOMAIN hist})
    IN  Max({db_best, GetCurrentStreak(tbl, t)})

\* save_streak_if_record(streak_length, start_date, end_date) at time t: what
\* it returns, the history after
SaveStreakIfRecordResult(tbl, hist, streak_length, start_date, end_date, t) ==
    IF streak_length <= 0
    THEN [ret |-> FALSE, hist |-> hist]
    ELSE [ret |-> streak_length > GetBestStreak(tbl, hist, t),
          hist |-> Append(hist, [id |-> Len(hist) + 1,
                                 streak_length |-> streak_length,
                                 start_date |-> start_date,
                                 end_date |-> end_date])]

\* no streak query answered yet
NoCall == [call |-> "none", value |-> NULL]

\* ------------------------------------------------------------ singleton
MaxThreads == 2

\* the class before the first construction: _instance is None, _lock is free
\* (lock = 0); the fields of the instance do not exist yet
NoSingleton ==
    [instance |-> NULL, objects |-> 0, lock |-> 0, initialized |-> "unset",
     db_path |-> NULL, init_db_runs |-> 0]

\* the class after app.py has constructed its DatabaseManager()
BuiltSingleton ==
    [instance |-> 1, objects |-> 1, lock |-> 0, initialized |-> "true",
     db_path |-> "progress.db", init_db_runs |-> 1]

\* a thread that is not inside DatabaseManager(...)
IdleThread == [pc |-> "idle", db_path |-> NULL, self |-> NULL]

\* ---------------------------------------------------------------- actions
Init ==
    /\ lessons = <<>>
    /\ tags = {}
    /\ tag_seq = 0
    /\ lesson_tags = {}
    /\ user_settings = EmptyMap
    /\ cache = EmptyMap
    /\ cache_timestamp = EmptyMap
    /\ now = 0
    /\ streak_history = <<>>
    /\ ret = NoCall
    /\ filename = <<>>
    /\ session_state = EmptyMap
    /\ singleton = BuiltSingleton
    /\ threads = [t \in 1..MaxThreads |-> IdleThread]

\* invalidate_cache()
InvalidateCache ==
    /\ cache' = EmptyMap
    /\ cache_timestamp' = EmptyMap

\* sync_folder never touches the cache
SyncFolder(folder, entries) ==
    /\ lessons' = SyncResult(lessons, folder, entries).tbl
    /\ UNCHANGED <<tags, tag_seq, lesson_tags, user_settings, cache, cache_timestamp, now, streak_history, ret,
                   filename,
                   session_state, singleton, threads>>

UpdateStatus(lesson_id, status) ==
    LET r == UpdateStatusResult(lessons, lesson_id, status, now)
    IN  /\ lessons' = r.tbl
        /\ IF r.ret THEN InvalidateCache ELSE UNCHANGED <<cache, cache_timestamp>>
        /\ UNCHANGED <<tags, tag_seq, lesson_tags, user_settings, now, streak_history, ret,
                   filename,
                   session_state, singleton, threads>>

CreateTag(raw) ==
    LET r == CreateTagResult(tags, tag_seq, raw)
    IN  /\ r.seq <= MaxTagId
        /\ tags' = r.tags
        /\ tag_seq' = r.seq
        /\ IF r.inserted THEN InvalidateCache ELSE UNCHANGED <<cache, cache_timestamp>>
        /\ UNCHANGED <<lessons, lesson_tags, user_settings, now, streak_history, ret,
                   filename,
                   session_state, singleton, threads>>

GetOrCreateTag(raw) ==
    LET r == GetOrCreateTagResult(tags, tag_seq, raw)
    IN  /\ r.seq <= MaxTagId
        /\ tags' = r.tags
        /\ tag_seq' = r.seq
        /\ IF r.inserted THEN InvalidateCache ELSE UNCHANGED <<cache, cache_timestamp>>
        /\ UNCHANGED <<lessons, lesson_tags, user_settings, now, streak_history, ret,
                   filename,
                   session_state, singleton, threads>>

\* a faulty variant: the associations of the deleted tag stay
DeleteTagNoCascade(tag_id) ==
    /\ tags' = {t \in tags : t.id # tag_id}
    /\ InvalidateCache
    /\ UNCHANGED <<lessons, tag_seq, lesson_tags, user_settings, now, streak_history, ret,
                   filename,
                   session_state, singleton, threads>>

\* DELETE FROM tags WHERE id = ?, ON DELETE CASCADE on lesson_tags
DeleteTag(tag_id) ==
    /\ tags' = {t \in tags : t.id # tag_id}
    /\ lesson_tags' = {p \in lesson_tags : p[2] # tag_id}
    /\ InvalidateCache
    /\ UNCHANGED <<lessons, tag_seq, user_settings, now, streak_history, ret,
                   filename,
                   session_state, singleton, threads>>

AddTagToLesson(lesson_id, tag_id) ==
    /\ IF CanAddTag(lessons, tags, lesson_tags, lesson_id, tag_id)
       THEN /\ lesson_tags' = lesson_tags \cup {<<lesson_id, tag_id>>}
            /\ InvalidateCache
       ELSE UNCHANGED <<lesson_tags, cache, cache_timestamp>>
    /\ UNCHANGED <<lessons, tags, tag_seq, user_settings, now, streak_history, ret,
                   filename,
                   session_state, singleton, threads>>

RemoveTagFromLesson(lesson_id, tag_id) ==
    /\ lesson_tags' = lesson_tags \ {<<lesson_id, tag_id>>}
    /\ InvalidateCache
    /\ UNCHANGED <<lessons, tags, tag_seq, user_settings, now, streak_history, ret,
                   filename,
                   session_state, singleton, threads>>

\* INSERT ... ON CONFLICT(key) DO UPDATE SET value = ?
SetSetting(key, value) ==
    /\ user_settings' = MapSet(user_settings, key, value)
    /\ InvalidateCache
    /\ UNCHANGED <<lessons, tags, tag_seq, lesson_tags, now, streak_history, ret,
                   filename,
                   session_state, singleton, threads>>

CachedGetter(key, fresh) ==
    LET r == CachedGet(cache, cache_timestamp, key, fresh, now)
    IN  /\ cache' = r.cache
        /\ cache_timestamp' = r.cache_timestamp
        /\ UNCHANGED <<lessons, tags, tag_seq, lesson_tags, user_settings, now, streak_history, ret,
                   filename,
                   session_state, singleton, threads>>

GetStats == CachedGetter("stats", ComputeStats(lessons))

GetInProgressLessons == CachedGetter("in_progress_10", ComputeInProgress(lessons))

GetYearsWithLessons == CachedGetter("years", ComputeYears(lessons))

GetAllTags == CachedGetter("all_tags", ComputeAllTags(tags))

\* save_streak_if_record: no cache invalidation
SaveStreakIfRecord(streak_length) ==
    LET today == DateOf(now)
        r == SaveStreakIfRecordResult(lessons, streak_history, streak_length,
                                      today - streak_length + 1, today, now)
    IN  /\ Len(r.hist) <= MaxHistory
        /\ streak_history' = r.hist
        /\ UNCHANGED <<lessons, tags, tag_seq, lesson_tags, user_settings,
                       cache, cache_timestamp, now, ret,
                   filename,
                   session_state, singleton, threads>>

\* a call of get_current_streak
CallGetCurrentStreak ==
    /\ ret' = [call |-> "get_current_streak", value |-> GetCurrentStreak(lessons, now)]
    /\ UNCHANGED <<lessons, tags, tag_seq, lesson_tags, user_settings,
                   cache, cache_timestamp, now, streak_history,
                   filename,
                   session_state, singleton, threads>>

\* a call of get_best_streak
CallGetBestStreak ==
    /\ ret' = [call |-> "get_best_streak",
               value |-> GetBestStreak(lessons, streak_history, now)]
    /\ UNCHANGED <<lessons, tags, tag_seq, lesson_tags, user_settings,
                   cache, cache_timestamp, now, streak_history,
                   filename,
                   session_state, singleton, threads>>

\* midnight passes
NextDay ==
    /\ DateOf(now) < MaxDay
    /\ now' = now + SecondsPerDay
    /\ UNCHANGED <<lessons, tags, tag_seq, lesson_tags, user_settings,
                   cache, cache_timestamp, streak_history, ret,
                   filename,
                   session_state, singleton, threads>>

\* the ids a caller may pass: the stored ones and one that is not stored
LessonIds == 1 .. (MaxHash + 1)

TagIds == 1 .. (MaxTagId + 1)

StatusArgs == Statuses \cup {"Done"}

TagNameArgs == {<<>>, <<" ">>, <<"a">>, <<" ", "a", " ">>}

SettingKeys == {"daily_goal"}

SettingValues == {"5"}

SyncStep ==
    \/ \E entries \in Listings : SyncFolder("lib", entries)
    \/ \E folder \in Folders \ {"lib"} : SyncFolder(folder, <<>>)

UpdateStatusStep ==
    \E lesson_id \in LessonIds, status \in StatusArgs : UpdateStatus(lesson_id, status)

Next ==
    \/ SyncStep
    \/ UpdateStatusStep

\* the sync engine and the status updates, over every directory listing
Spec == Init /\ [][Next]_vars

\* two files of a library: file n has name n and content n, the first one
\* has a transcript beside it
ApiEntries ==
    {e \in Readable : /\ e.name # 0 /\ e.hash = e.name /\ e.mtime = 1
                      /\ e.srt = IF e.name = 1 THEN 1 ELSE NULL}

ApiListings == {s \in Listings : \A k \in DOMAIN s : s[k] \in ApiEntries}

ApiSyncStep == \E entries \in ApiListings : SyncFolder("lib", entries)

TagStep ==
    \/ \E raw \in TagNameArgs : CreateTag(raw)
    \/ \E raw \in TagNameArgs : GetOrCreateTag(raw)
    \/ \E tag_id \in TagIds : DeleteTag(tag_id)
    \/ \E lesson_id \in LessonIds, tag_id \in TagIds : AddTagToLesson(lesson_id, tag_id)
    \/ \E lesson_id \in LessonIds, tag_id \in TagIds : RemoveTagFromLesson(lesson_id, tag_id)

StreakLengthArgs == 0 .. MaxHistory

HistoryStep == \E streak_length \in StreakLengthArgs : SaveStreakIfRecord(streak_length)

SettingStep == \E key \in SettingKeys, value \in SettingValues : SetSetting(key, value)

GetterStep ==
    \/ GetStats
    \/ GetInProgressLessons
    \/ GetYearsWithLessons
    \/ GetAllTags

NextApi ==
    \/ ApiSyncStep
    \/ UpdateStatusStep
    \/ TagStep
    \/ SettingStep
    \/ GetterStep
    \/ HistoryStep

\* the whole store interface with its cache, over a library of two files
SpecApi == Init /\ [][NextApi]_vars

\* the tag operations over names that differ in case and in surrounding
\* blanks, on a library of two files
WideTagNameArgs == TagNameArgs \cup {<<"A">>, <<"A", " ">>}

WideTagStep ==
    \/ \E raw \in WideTagNameArgs : CreateTag(raw)
    \/ \E raw \in WideTagNameArgs : GetOrCreateTag(raw)
    \/ \E tag_id \in TagIds : DeleteTag(tag_id)
    \/ \E lesson_id \in LessonIds, tag_id \in TagIds : AddTagToLesson(lesson_id, tag_id)
    \/ \E lesson_id \in LessonIds, tag_id \in TagIds : RemoveTagFromLesson(lesson_id, tag_id)

NextTags ==
    \/ ApiSyncStep
    \/ WideTagStep

SpecTags == Init /\ [][NextTags]_vars

\* the streak over the days: status changes, syncs of a library of two files,
\* midnights, and the two streak queries
StreakQueryStep ==
    \/ CallGetCurrentStreak
    \/ CallGetBestStreak

NextStreak ==
    \/ ApiSyncStep
    \/ UpdateStatusStep
    \/ NextDay
    \/ StreakQueryStep

SpecStreak == Init /\ [][NextStreak]_vars

\* a lesson row of the given status and completion time
LessonRow(id, status, completed_at) ==
    [id |-> id, file_hash |-> id, filepath |-> Filepath("lib", id),
     filename |-> id, author |-> id, title |-> id, lesson_date |-> id,
     file_mtime |-> 1, status |-> status, completed_at |-> completed_at,
     transcript |-> NULL]

\* the lengths of a run of completion days: short ones, and ones about as
\* long as the activity window
RunLengths == (0 .. 3) \cup ((ActivityDays + 1) .. MaxRun)

\* a lessons table: one lesson completed on each day of a run of `len` days
\* that ends `gap` days before `today`, then (older) one completed two days
\* before the run, (dup) a second one completed on the run's last day,
\* (archived) one completed today and archived since
ActivityTable(today, gap, len, older, dup, archived) ==
    LET last == today - gap
        run == [i \in 1 .. len |->
                  LessonRow(i, "Completed", (last - len + i) * SecondsPerDay)]
        t1 == IF older
              THEN Append(run, LessonRow(Len(run) + 1, "Completed",
                                         (last - len - 1) * SecondsPerDay))
              ELSE run
        t2 == IF dup
              THEN Append(t1, LessonRow(Len(t1) + 1, "Completed",
                                        last * SecondsPerDay + 1))
              ELSE t1
    IN  IF archived
        THEN Append(t2, LessonRow(Len(t2) + 1, "Archived", today * SecondsPerDay))
        ELSE t2

ActivityTables ==
    {ActivityTable(StartDay, gap, len, older, dup, archived) :
        gap \in 0 .. MaxGap, len \in RunLengths,
        older \in BOOLEAN, dup \in BOOLEAN, archived \in BOOLEAN}

InitActivity ==
    /\ lessons \in ActivityTables
    /\ tags = {}
    /\ tag_seq = 0
    /\ lesson_tags = {}
    /\ user_settings = EmptyMap
    /\ cache = EmptyMap
    /\ cache_timestamp = EmptyMap
    /\ now = StartDay * SecondsPerDay
    /\ streak_history = <<>>
    /\ ret = NoCall
    /\ filename = <<>>
    /\ session_state = EmptyMap
    /\ singleton = BuiltSingleton
    /\ threads = [t \in 1..MaxThreads |-> IdleThread]

\* the streak queries over lesson tables of every shape of completion dates
SpecActivity == InitActivity /\ [][StreakQueryStep]_vars

\* ------------------------------------------------------- the file-name parser
\* A file name is a sequence of characters.
MaxBody == 8

\* the characters \d matches, with their values
DigitValue ==
    [c \in {"0", "1", "2", "3", "4", "5", "6", "7", "8", "9"} |->
        CASE c = "0" -> 0 [] c = "1" -> 1 [] c = "2" -> 2 [] c = "3" -> 3
          [] c = "4" -> 4 [] c = "5" -> 5 [] c = "6" -> 6 [] c = "7" -> 7
          [] c = "8" -> 8 [] c = "9" -> 9]

\* re.IGNORECASE and str.lower() on the letters that occur
Lower(text) ==
    [i \in 1..Len(text) |->
        CASE text[i] = "J" -> "j"
          [] text[i] = "M" -> "m"
          [] text[i] = "P" -> "p"
          [] OTHER -> text[i]]

\* \.mp4$ under re.IGNORECASE, on a name of at least 4 characters
IsMp4Suffix(clean) ==
    Lower(SubSeq(clean, Len(clean) - 3, Len(clean))) = <<".", "m", "p", "4">>

\* \d{2}-\d{2}-\d{4}
IsDateText(text) ==
    /\ Len(text) = 10
    /\ \A i \in {1, 2, 4, 5, 7, 8, 9, 10} : text[i] \in DOMAIN DigitValue
    /\ text[3] = "-"
    /\ text[6] = "-"

DaysInMonth(month, year) ==
    CASE month \in {4, 6, 9, 11} -> 30
      [] month = 2 ->
           IF (year % 4 = 0 /\ year % 100 # 0) \/ year % 400 = 0 THEN 29 ELSE 28
      [] OTHER -> 31

\* datetime.strptime(date_str, '%d-%m-%Y').date(): <<the date>>, or <<>> for
\* the ValueError of a date that is not in the calendar
Strptime(date_str) ==
    LET day   == 10 * DigitValue[date_str[1]] + DigitValue[date_str[2]]
        month == 10 * DigitValue[date_str[4]] + DigitValue[date_str[5]]
        year  == 1000 * DigitValue[date_str[7]] + 100 * DigitValue[date_str[8]]
                 + 10 * DigitValue[date_str[9]] + DigitValue[date_str[10]]
    IN  IF year >= 1 /\ month \in 1..12 /\ day \in 1..DaysInMonth(month, year)
        THEN <<[year |-> year, month |-> month, day |-> day]>>
        ELSE <<>>

\* the part of a name in front of its last 14 characters (date and suffix)
BodyOf(clean) == SubSeq(clean, 1, Len(clean) - 14)

DateTextOf(clean) == SubSeq(clean, Len(clean) - 13, Len(clean) - 4)

\* the pairs <<i, h>> of FILENAME_PATTERN on a body: group 1 ends at i, and
\* the rest matches \s*-\s*(.+?)\s* with blanks up to a hyphen at h and at
\* least one more character behind it
PrimarySplits(body) ==
    {split \in (1..Len(body)) \X (1..(Len(body) - 1)) :
        /\ split[1] < split[2]
        /\ \A b \in (split[1] + 1)..(split[2] - 1) : body[b] = " "
        /\ body[split[2]] = "-"}

\* FILENAME_PATTERN.match: <<[group 1, group 2 with the blanks around it,
\* group 3]>>, or <<>>; the lazy group 1 ends at the first possible place
PrimaryMatch(clean) ==
    IF Len(clean) >= 14 /\ IsMp4Suffix(clean)
       /\ IsDateText(DateTextOf(clean)) /\ PrimarySplits(BodyOf(clean)) # {}
    THEN LET body == BodyOf(clean)
             split == CHOOSE x \in PrimarySplits(body) :
                         \A y \in PrimarySplits(body) : x[1] <= y[1]
         IN  <<[g1 |-> SubSeq(body, 1, split[1]),
                g2 |-> SubSeq(body, split[2] + 1, Len(body)),
                g3 |-> DateTextOf(clean)]>>
    ELSE <<>>

\* FILENAME_NO_SEPARATOR_PATTERN.match: group 1 is a run of characters that
\* are not blank, followed by at least one blank
NoSeparatorMatch(clean) ==
    IF Len(clean) >= 14 /\ IsMp4Suffix(clean)
       /\ IsDateText(DateTextOf(clean))
       /\ \E k \in 1..(Len(BodyOf(clean)) - 1) :
              /\ \A j \in 1..k : BodyOf(clean)[j] # " "
              /\ \A b \in (k + 1)..Len(BodyOf(clean)) : BodyOf(clean)[b] = " "
    THEN <<[g1 |-> RStrip(BodyOf(clean)), g2 |-> DateTextOf(clean)]>>
    ELSE <<>>

\* parse_filename: <<the fields>>, or <<>> for None; the digest of
\* generate_unique_hash is a function of the lowered author and title
ParseFilename(name) ==
    LET clean == Strip(name)
        primary == PrimaryMatch(clean)
        fallback == NoSeparatorMatch(clean)
    IN  IF primary # <<>>
        THEN LET author == Strip(primary[1].g1)
                 title == Strip(primary[1].g2)
                 lesson_date == Strptime(primary[1].g3)
             IN  IF lesson_date = <<>> THEN <<>>
                 ELSE <<[author |-> author, title |-> title,
                         lesson_date |-> lesson_date[1],
                         unique_hash |-> <<Lower(author), Lower(title)>>,
                         filename |-> name]>>
        ELSE IF fallback # <<>>
        THEN LET author == Strip(fallback[1].g1)
                 lesson_date == Strptime(fallback[1].g2)
             IN  IF lesson_date = <<>> THEN <<>>
                 ELSE <<[author |-> author, title |-> author,
                         lesson_date |-> lesson_date[1],
                         unique_hash |-> <<Lower(author), Lower(author)>>,
                         filename |-> name]>>
        ELSE <<>>

\* the call parse_filename(filename)
CallParseFilename ==
    /\ ret' = [call |-> "parse_filename", value |-> ParseFilename(filename)]
    /\ UNCHANGED <<lessons, tags, tag_seq, lesson_tags, user_settings, cache,
                   cache_timestamp, now, streak_history, filename,
                   session_state, singleton, threads>>

\* the names made of a body of letters, blanks and hyphens up to the given
\* length, a date text and a suffix
FileNames(n) ==
    {body \o date \o suffix :
        body \in SeqsUpTo({"J", " ", "-"}, n),
        date \in
          {<<"0", "1", "-", "0", "6", "-", "2", "0", "2", "3">>,
           <<"3", "1", "-", "0", "2", "-", "2", "0", "2", "3">>,
           <<"2", "9", "-", "0", "2", "-", "2", "0", "2", "4">>,
           <<"2", "9", "-", "0", "2", "-", "2", "0", "2", "3">>,
           <<"2", "9", "-", "0", "2", "-", "1", "9", "0", "0">>,
           <<"2", "9", "-", "0", "2", "-", "2", "0", "0", "0">>,
           <<"3", "1", "-", "0", "4", "-", "2", "0", "2", "3">>,
           <<"0", "0", "-", "0", "6", "-", "2", "0", "2", "3">>,
           <<"0", "1", "-", "1", "3", "-", "2", "0", "2", "3">>,
           <<"0", "1", "-", "0", "6", "-", "0", "0", "0", "0">>,
           <<"1", "-", "6", "-", "2", "0", "2", "3">>},
        suffix \in {<<".", "m", "p", "4">>, <<".", "M", "P", "4">>,
                    <<".", "m", "k", "v">>}}

InitParser ==
    /\ lessons = <<>>
    /\ tags = {}
    /\ tag_seq = 0
    /\ lesson_tags = {}
    /\ user_settings = EmptyMap
    /\ cache = EmptyMap
    /\ cache_timestamp = EmptyMap
    /\ now = 0
    /\ streak_history = <<>>
    /\ ret = NoCall
    /\ filename \in FileNames(MaxBody)
    /\ session_state = EmptyMap
    /\ singleton = BuiltSingleton
    /\ threads = [t \in 1..MaxThreads |-> IdleThread]

\* parse_filename over every short body with each of the dates and suffixes
SpecParser == InitParser /\ [][CallParseFilename]_vars

\* --------------------------------------------------------------- goals
\* get_setting(key, default)
GetSetting(settings, key, default) ==
    IF key \in DOMAIN settings THEN settings[key] ELSE default

RECURSIVE DigitsValue(_)
DigitsValue(text) ==
    IF text = <<>> THEN 0
    ELSE 10 * DigitsValue(SubSeq(text, 1, Len(text) - 1))
         + DigitValue[text[Len(text)]]

\* int(value) on a string: blanks around it, a sign, digits; <<the number>>,
\* or <<>> for the ValueError
ParseInt(value) ==
    LET text == Strip(value)
        signed == text # <<>> /\ text[1] \in {"-", "+"}
        digits == IF signed THEN Tail(text) ELSE text
    IN  IF digits # <<>> /\ \A k \in DOMAIN digits : digits[k] \in DOMAIN DigitValue
        THEN <<IF signed /\ text[1] = "-" THEN 0 - DigitsValue(digits)
               ELSE DigitsValue(digits)>>
        ELSE <<>>

GetDailyGoal(settings) ==
    LET parsed == ParseInt(GetSetting(settings, "daily_goal", <<"3">>))
    IN  IF parsed = <<>> THEN 3 ELSE parsed[1]

GetWeeklyGoal(settings) ==
    LET parsed == ParseInt(GetSetting(settings, "weekly_goal", <<"1", "5">>))
    IN  IF parsed = <<>> THEN 15 ELSE parsed[1]

\* SELECT COUNT(*) ... WHERE status = 'Completed'
\*                      AND DATE(completed_at) = DATE('now')
GetTodayCompletions(tbl, t) ==
    Cardinality({i \in DOMAIN tbl :
        /\ tbl[i].status = "Completed"
        /\ tbl[i].completed_at # NULL
        /\ DateOf(tbl[i].completed_at) = DateOf(t)})

\* DATE('now', 'weekday 0', '-6 days'): the Monday of the week that ends on
\* the first Sunday that is not before today; days count from 1970-01-01, a
\* Thursday, so (day + 4) % 7 is the day of the week with 0 for Sunday
WeekStart(day) == day + ((7 - ((day + 4) % 7)) % 7) - 6

GetWeekCompletions(tbl, t) ==
    Cardinality({i \in DOMAIN tbl :
        /\ tbl[i].status = "Completed"
        /\ tbl[i].completed_at # NULL
        /\ DateOf(tbl[i].completed_at) >= WeekStart(DateOf(t))
        /\ DateOf(tbl[i].completed_at) <= DateOf(t)})

\* a percentage is kept as the fraction [num, den] with den > 0
Exceeds(fraction, n) == fraction.num > n * fraction.den

\* the dictionary get_daily_progress and get_weekly_progress build
Progress(completed, goal) ==
    LET percentage == IF goal > 0 THEN [num |-> completed * 100, den |-> goal]
                      ELSE [num |-> 0, den |-> 1]
    IN  [completed |-> completed,
         goal |-> goal,
         percentage |-> IF Exceeds(percentage, 100) THEN [num |-> 100, den |-> 1]
                        ELSE percentage,
         actual_percentage |-> percentage,
         is_overachieved |-> completed > goal]

\* get_daily_progress()
CallGetDailyProgress ==
    /\ ret' = [call |-> "get_daily_progress",
               value |-> Progress(GetTodayCompletions(lessons, now),
                                  GetDailyGoal(user_settings))]
    /\ UNCHANGED <<lessons, tags, tag_seq, lesson_tags, user_settings,
                   cache, cache_timestamp, now, streak_history, filename,
                   session_state, singleton, threads>>

\* get_weekly_progress()
CallGetWeeklyProgress ==
    /\ ret' = [call |-> "get_weekly_progress",
               value |-> Progress(GetWeekCompletions(lessons, now),
                                  GetWeeklyGoal(user_settings))]
    /\ UNCHANGED <<lessons, tags, tag_seq, lesson_tags, user_settings,
                   cache, cache_timestamp, now, streak_history, filename,
                   session_state, singleton, threads>>

\* set_setting on the goals, with values as it stores them: text
GoalStep ==
    \E key \in {"daily_goal", "weekly_goal"},
       value \in {<<"0">>, <<"-", "1">>, <<"1">>, <<" ", "2">>, <<"x">>} :
        SetSetting(key, value)

\* the store after the first sync of a library of two files
InitGoals ==
    /\ lessons \in {SyncResult(<<>>, "lib", entries).tbl :
                      entries \in {s \in ApiListings : Len(s) = 2}}
    /\ tags = {}
    /\ tag_seq = 0
    /\ lesson_tags = {}
    /\ user_settings = EmptyMap
    /\ cache = EmptyMap
    /\ cache_timestamp = EmptyMap
    /\ now = 0
    /\ streak_history = <<>>
    /\ ret = NoCall
    /\ filename = <<>>
    /\ session_state = EmptyMap
    /\ singleton = BuiltSingleton
    /\ threads = [t \in 1..MaxThreads |-> IdleThread]

NextGoals ==
    \/ UpdateStatusStep
    \/ GoalStep
    \/ NextDay
    \/ CallGetDailyProgress
    \/ CallGetWeeklyProgress

\* goal progress over every completion count and every goal setting
SpecGoals == InitGoals /\ [][NextGoals]_vars

\* ------------------------------------------------------ the cache in time
MaxClock == 6

\* a second passes
Tick ==
    /\ now < MaxClock
    /\ now' = now + 1
    /\ UNCHANGED <<lessons, tags, tag_seq, lesson_tags, user_settings,
                   cache, cache_timestamp, streak_history, ret, filename,
                   session_state, singleton, threads>>

\* a library of one file is synced, a status change or a new tag
\* invalidates, the getters are called and the clock runs
NextCache ==
    \/ \E entries \in {s \in ApiListings : \A k \in DOMAIN s : s[k].name = 1} :
          SyncFolder("lib", entries)
    \/ \E lesson_id \in {1, 2}, status \in {"New", "In Progress", "Done"} :
          UpdateStatus(lesson_id, status)
    \/ CreateTag(<<"a">>)
    \/ GetterStep
    \/ Tick

\* the cached getters while seconds pass, past the TTL
SpecCache == Init /\ [][NextCache]_vars

\* ------------------------------------------- DatabaseManager(db_path)
\* One action per statement of __new__ and __init__; thread t runs them in
\* order, and the threads interleave between statements.
\* the state that neither a construction nor a playlist callback writes
others == <<tags, tag_seq, lesson_tags, user_settings, now, streak_history,
            ret, filename>>

\* DatabaseManager(db_path) is called
Construct(t, db_path) ==
    /\ threads[t].pc = "idle"
    /\ threads' = [threads EXCEPT ![t] =
                     [pc |-> "new_check", db_path |-> db_path, self |-> NULL]]
    /\ UNCHANGED <<others, lessons, session_state, cache, cache_timestamp, singleton>>

\* if cls._instance is None:
NewCheck(t) ==
    /\ threads[t].pc = "new_check"
    /\ threads' = [threads EXCEPT ![t].pc =
                     IF singleton.instance = NULL THEN "new_acquire"
                     ELSE "new_return"]
    /\ UNCHANGED <<others, lessons, session_state, cache, cache_timestamp, singleton>>

\* with cls._lock:
NewAcquire(t) ==
    /\ threads[t].pc = "new_acquire"
    /\ singleton.lock = 0
    /\ singleton' = [singleton EXCEPT !.lock = t]
    /\ threads' = [threads EXCEPT ![t].pc = "new_check2"]
    /\ UNCHANGED <<others, lessons, session_state, cache, cache_timestamp>>

\* if cls._instance is None:    (under the lock)
NewCheck2(t) ==
    /\ threads[t].pc = "new_check2"
    /\ threads' = [threads EXCEPT ![t].pc =
                     IF singleton.instance = NULL THEN "new_alloc"
                     ELSE "new_release"]
    /\ UNCHANGED <<others, lessons, session_state, cache, cache_timestamp, singleton>>

\* cls._instance = super().__new__(cls): a new object without any field
NewAlloc(t) ==
    /\ threads[t].pc = "new_alloc"
    /\ singleton' = [singleton EXCEPT !.instance = singleton.objects + 1,
                                      !.objects = singleton.objects + 1,
                                      !.initialized = "unset",
                                      !.db_path = NULL]
    /\ threads' = [threads EXCEPT ![t].pc = "new_flag"]
    /\ UNCHANGED <<others, lessons, session_state, cache, cache_timestamp>>

\* cls._instance._initialized = False
NewFlag(t) ==
    /\ threads[t].pc = "new_flag"
    /\ singleton' = [singleton EXCEPT !.initialized = "false"]
    /\ threads' = [threads EXCEPT ![t].pc = "new_release"]
    /\ UNCHANGED <<others, lessons, session_state, cache, cache_timestamp>>

\* the end of the with block
NewRelease(t) ==
    /\ threads[t].pc = "new_release"
    /\ singleton' = [singleton EXCEPT !.lock = 0]
    /\ threads' = [threads EXCEPT ![t].pc = "new_return"]
    /\ UNCHANGED <<others, lessons, session_state, cache, cache_timestamp>>

\* return cls._instance; type.__call__ passes it to __init__ as self
NewReturn(t) ==
    /\ threads[t].pc = "new_return"
    /\ threads' = [threads EXCEPT ![t].pc = "init_check",
                                  ![t].self = singleton.instance]
    /\ UNCHANGED <<others, lessons, session_state, cache, cache_timestamp, singleton>>

\* if self._initialized: return; the read raises AttributeError while the
\* field does not exist
InitCheck(t) ==
    /\ threads[t].pc = "init_check"
    /\ threads' = [threads EXCEPT ![t].pc =
                     CASE singleton.initialized = "unset" -> "raised"
                       [] singleton.initialized = "true" -> "done"
                       [] OTHER -> "init_path"]
    /\ UNCHANGED <<others, lessons, session_state, cache, cache_timestamp, singleton>>

\* self.db_path = db_path
InitPath(t) ==
    /\ threads[t].pc = "init_path"
    /\ singleton' = [singleton EXCEPT !.db_path = threads[t].db_path]
    /\ threads' = [threads EXCEPT ![t].pc = "init_cache"]
    /\ UNCHANGED <<others, lessons, session_state, cache, cache_timestamp>>

\* self._cache = {}
InitCache(t) ==
    /\ threads[t].pc = "init_cache"
    /\ cache' = EmptyMap
    /\ threads' = [threads EXCEPT ![t].pc = "init_timestamp"]
    /\ UNCHANGED <<others, lessons, session_state, cache_timestamp, singleton>>

\* self._cache_timestamp = {}; self._cache_ttl = 5
InitTimestamp(t) ==
    /\ threads[t].pc = "init_timestamp"
    /\ cache_timestamp' = EmptyMap
    /\ threads' = [threads EXCEPT ![t].pc = "init_db"]
    /\ UNCHANGED <<others, lessons, session_state, cache, singleton>>

\* self._init_db(): CREATE TABLE IF NOT EXISTS ..., one more run of it
InitDb(t) ==
    /\ threads[t].pc = "init_db"
    /\ singleton' = [singleton EXCEPT !.init_db_runs = singleton.init_db_runs + 1]
    /\ threads' = [threads EXCEPT ![t].pc = "init_flag"]
    /\ UNCHANGED <<others, lessons, session_state, cache, cache_timestamp>>

\* self._initialized = True
InitFlag(t) ==
    /\ threads[t].pc = "init_flag"
    /\ singleton' = [singleton EXCEPT !.initialized = "true"]
    /\ threads' = [threads EXCEPT ![t].pc = "done"]
    /\ UNCHANGED <<others, lessons, session_state, cache, cache_timestamp>>

\* the caller of a finished construction goes on and may construct again
Finish(t) ==
    /\ threads[t].pc = "done"
    /\ threads' = [threads EXCEPT ![t].pc = "idle"]
    /\ UNCHANGED <<others, lessons, session_state, cache, cache_timestamp, singleton>>

\* a caller that holds the initialised manager asks for the statistics
StatsOnSingleton ==
    /\ \E t \in 1..MaxThreads :
          \/ threads[t].pc = "done"
          \/ threads[t].pc = "idle" /\ threads[t].self # NULL
    /\ singleton.initialized = "true"
    /\ GetStats
    /\ UNCHANGED <<singleton, threads>>

InitSingleton ==
    /\ lessons = <<>>
    /\ tags = {}
    /\ tag_seq = 0
    /\ lesson_tags = {}
    /\ user_settings = EmptyMap
    /\ cache = EmptyMap
    /\ cache_timestamp = EmptyMap
    /\ now = 0
    /\ streak_history = <<>>
    /\ ret = NoCall
    /\ filename = <<>>
    /\ session_state = EmptyMap
    /\ singleton = NoSingleton
    /\ threads = [t \in 1..MaxThreads |-> IdleThread]

NextSingleton ==
    \/ \E t \in 1..MaxThreads, db_path \in {"progress.db", "other.db"} :
          Construct(t, db_path)
    \/ \E t \in 1..MaxThreads : NewCheck(t)
    \/ \E t \in 1..MaxThreads : NewAcquire(t)
    \/ \E t \in 1..MaxThreads : NewCheck2(t)
    \/ \E t \in 1..MaxThreads : NewAlloc(t)
    \/ \E t \in 1..MaxThreads : NewFlag(t)
    \/ \E t \in 1..MaxThreads : NewRelease(t)
    \/ \E t \in 1..MaxThreads : NewReturn(t)
    \/ \E t \in 1..MaxThreads : InitCheck(t)
    \/ \E t \in 1..MaxThreads : InitPath(t)
    \/ \E t \in 1..MaxThreads : InitCache(t)
    \/ \E t \in 1..MaxThreads : InitTimestamp(t)
    \/ \E t \in 1..MaxThreads : InitDb(t)
    \/ \E t \in 1..MaxThreads : InitFlag(t)
    \/ \E t \in 1..MaxThreads : Finish(t)
    \/ StatsOnSingleton

\* threads constructing the manager, interleaved statement by statement
SpecSingleton == InitSingleton /\ [][NextSingleton]_vars

\* ------------------------------------------------------------- playlist
MaxPlaylist == 3

\* st.session_state.get(key, default)
SessionGet(ss, key, default) == IF key \in DOMAIN ss THEN ss[key] ELSE default

RECURSIVE SessionSet(_, _)
\* a run of assignments st.session_state.<key> = value, given as pairs
SessionSet(ss, pairs) ==
    IF pairs = <<>> THEN ss
    ELSE SessionSet(MapSet(ss, Head(pairs)[1], Head(pairs)[2]), Tail(pairs))

\* a faulty variant: the index advances and the selection stays
PlaylistNextKeepsSelection(ss) ==
    LET playlist_ids == SessionGet(ss, "playlist_ids", <<>>)
        current_index == SessionGet(ss, "playlist_index", 0)
    IN  IF playlist_ids = <<>> THEN ss
        ELSE IF current_index < Len(playlist_ids) - 1
        THEN SessionSet(ss, << <<"playlist_index", current_index + 1>> >>)
        ELSE ss

\* playlist_next; playlist_ids[k] of Python is playlist_ids[k + 1] here
PlaylistNextResult(ss) ==
    LET playlist_ids == SessionGet(ss, "playlist_ids", <<>>)
        current_index == SessionGet(ss, "playlist_index", 0)
    IN  IF playlist_ids = <<>> THEN ss
        ELSE IF current_index < Len(playlist_ids) - 1
        THEN SessionSet(ss, << <<"playlist_index", current_index + 1>>,
                               <<"selected_lesson_id",
                                 playlist_ids[current_index + 2]>> >>)
        ELSE ss

\* playlist_prev
PlaylistPrevResult(ss) ==
    LET playlist_ids == SessionGet(ss, "playlist_ids", <<>>)
        current_index == SessionGet(ss, "playlist_index", 0)
    IN  IF playlist_ids = <<>> THEN ss
        ELSE IF current_index > 0
        THEN SessionSet(ss, << <<"playlist_index", current_index - 1>>,
                               <<"selected_lesson_id",
                                 playlist_ids[current_index]>> >>)
        ELSE ss

\* exit_playlist
ExitPlaylistResult(ss) ==
    SessionSet(ss, << <<"playlist_ids", <<>> >>,
                      <<"playlist_index", 0>>,
                      <<"playlist_shuffle", FALSE>>,
                      <<"selected_lesson_id", NULL>> >>)

\* complete_and_next: db.update_status(lesson_id, 'Completed'), then
\* playlist_next()
CompleteAndNextResult(tbl, ss, lesson_id, t) ==
    [tbl |-> UpdateStatusResult(tbl, lesson_id, "Completed", t).tbl,
     ss |-> PlaylistNextResult(ss)]

\* start_playlist; random.shuffle can leave the list in any order
StartPlaylist(lesson_ids, shuffle) ==
    /\ IF lesson_ids = <<>> THEN session_state' = session_state
       ELSE \E p \in {q \in [DOMAIN lesson_ids -> DOMAIN lesson_ids] :
                        \A i, j \in DOMAIN lesson_ids : i # j => q[i] # q[j]} :
              LET ids == IF shuffle
                         THEN [k \in DOMAIN lesson_ids |-> lesson_ids[p[k]]]
                         ELSE lesson_ids
              IN  session_state' =
                      SessionSet(session_state,
                                 << <<"playlist_ids", ids>>,
                                    <<"playlist_index", 0>>,
                                    <<"playlist_shuffle", shuffle>>,
                                    <<"selected_lesson_id", ids[1]>> >>)
    /\ UNCHANGED <<others, singleton, threads, lessons, cache, cache_timestamp>>

PlaylistNext ==
    /\ session_state' = PlaylistNextResult(session_state)
    /\ UNCHANGED <<others, singleton, threads, lessons, cache, cache_timestamp>>

PlaylistPrev ==
    /\ session_state' = PlaylistPrevResult(session_state)
    /\ UNCHANGED <<others, singleton, threads, lessons, cache, cache_timestamp>>

ExitPlaylist ==
    /\ session_state' = ExitPlaylistResult(session_state)
    /\ UNCHANGED <<others, singleton, threads, lessons, cache, cache_timestamp>>

CompleteAndNext(lesson_id) ==
    LET r == CompleteAndNextResult(lessons, session_state, lesson_id, now)
    IN  /\ lessons' = r.tbl
        /\ InvalidateCache
        /\ session_state' = r.ss
        /\ UNCHANGED <<others, singleton, threads>>

\* the callbacks, with every list of lesson ids a caller may pass, the empty
\* one included
PlaylistStep ==
    \/ \E lesson_ids \in SeqsUpTo(LessonIds, MaxPlaylist), shuffle \in BOOLEAN :
          StartPlaylist(lesson_ids, shuffle)
    \/ PlaylistNext
    \/ PlaylistPrev
    \/ ExitPlaylist
    \/ \E lesson_id \in LessonIds : CompleteAndNext(lesson_id)

\* the playlist callbacks on the store of a synced library of two files
SpecPlaylist == InitGoals /\ [][PlaylistStep]_vars

\* ------------------------------------------------------------ properties
\* the fingerprints a scan of `entries` hashes
ObservedHashes(entries) ==
    {entries[k].hash : k \in {j \in DOMAIN entries : entries[j].hash # NoHash}}

\* the fingerprints of the entries that hash and whose name parses: the
\* files a scan classifies as new, changed or unchanged
ClassifiedHashes(entries) ==
    {entries[k].hash : k \in {j \in DOMAIN entries :
                                 /\ entries[j].hash # NoHash
                                 /\ ParseFunc(entries[j].name) # <<>>}}

NoCounts(stats) == stats.added = 0 /\ stats.updated = 0 /\ stats.archived = 0

\* C1: sync_folder run twice in succession on the same directory listing:
\* the second run returns added = updated = archived = 0 and counts every
\* file it classifies (one that hashes and parses) as unchanged.
C1_SecondSyncIsNoOp ==
    \A entries \in Listings :
        LET first == SyncResult(lessons, "lib", entries)
            second == SyncResult(first.tbl, "lib", entries)
        IN  /\ ~second.raised
            /\ NoCounts(second.stats)
            /\ second.stats.unchanged + second.stats.errors = Len(entries)

\* C2: after sync_folder on an existing directory that returns its counts,
\* every lesson that was not Archived and whose fingerprint the scan did not
\* observe is Archived and counted in archived, whatever files remain.
C2_UnobservedAreArchived ==
    \A entries \in Listings :
        LET r == SyncResult(lessons, "lib", entries)
            gone == {i \in DOMAIN lessons :
                        /\ lessons[i].status # "Archived"
                        /\ lessons[i].file_hash \notin ObservedHashes(entries)}
        IN  ~r.raised =>
              /\ \A i \in gone : r.tbl[i].status = "Archived"
              /\ r.stats.archived >= Cardinality(gone)

\* C3: sync_folder leaves status and completed_at of every stored lesson it
\* classifies as changed or unchanged exactly as they were, whatever the
\* status, also when it updates path, mtime or transcript.
C3_SyncPreservesStatus ==
    \A entries \in Listings :
        LET r == SyncResult(lessons, "lib", entries)
        IN  \A i \in DOMAIN lessons :
              lessons[i].file_hash \in ClassifiedHashes(entries) =>
                /\ r.tbl[i].id = lessons[i].id
                /\ r.tbl[i].status = lessons[i].status
                /\ r.tbl[i].completed_at = lessons[i].completed_at

\* a Completed and an Archived lesson are stored, and a scan finds both under
\* another name, touched and with a transcript: both rows are updated
C3_Witness ==
    \E entries \in Listings :
        LET r == SyncResult(lessons, "lib", entries)
        IN  /\ r.stats.updated = 2
            /\ \E i, j \in DOMAIN lessons :
                 /\ lessons[i].status = "Completed" /\ lessons[i].completed_at # NULL
                 /\ lessons[j].status = "Archived"
                 /\ \A k \in {i, j} :
                      /\ r.tbl[k].filepath # lessons[k].filepath
                      /\ r.tbl[k].file_mtime # lessons[k].file_mtime
                      /\ r.tbl[k].transcript # lessons[k].transcript

\* C4: a file renamed without a change of content (its fingerprint is stored,
\* its old name is gone from the directory): the next sync_folder puts the
\* new filepath and filename on the same row, counts it as updated and adds
\* no row for that fingerprint.
C4_RenameFollowsFile ==
    \A entries \in Listings :
        LET r == SyncResult(lessons, "lib", entries)
        IN  \A i \in DOMAIN lessons, k \in DOMAIN entries :
              ( /\ entries[k].hash = lessons[i].file_hash
                /\ entries[k].name # lessons[i].filename
                /\ \A j \in DOMAIN entries :
                     /\ entries[j].name # lessons[i].filename
                     /\ (j # k => entries[j].hash # entries[k].hash) )
              => /\ ~r.raised
                 /\ r.tbl[i].id = lessons[i].id
                 /\ r.tbl[i].filename = entries[k].name
                 /\ r.tbl[i].filepath = Filepath("lib", entries[k].name)
                 /\ r.stats.updated >= 1
                 /\ Cardinality({j \in DOMAIN r.tbl :
                                   r.tbl[j].file_hash = entries[k].hash}) = 1

\* C5: completed_at is non-null exactly when the status is Completed.
C5_CompletedAtIffCompleted ==
    \A i \in DOMAIN lessons :
        (lessons[i].completed_at # NULL) <=> (lessons[i].status = "Completed")

\* C6: update_status on a stored lesson with Completed sets the status and a
\* non-null completed_at; with New or In Progress it sets the status and a
\* null completed_at, whatever the status was; no other lesson changes.
C6_UpdateStatusSetsCompletedAt ==
    \A lesson_id \in DOMAIN lessons, status \in {"New", "In Progress", "Completed"} :
        LET r == UpdateStatusResult(lessons, lesson_id, status, now)
        IN  /\ r.ret
            /\ DOMAIN r.tbl = DOMAIN lessons
            /\ r.tbl[lesson_id].status = status
            /\ (status = "Completed") <=> (r.tbl[lesson_id].completed_at # NULL)
            /\ \A j \in DOMAIN lessons : j # lesson_id => r.tbl[j] = lessons[j]

\* update_status has completed one lesson and taken another one, completed
\* before, back to In Progress: that one's completed_at is cleared
C6_Witness ==
    \E i, j \in DOMAIN lessons :
        /\ lessons[i].status = "Completed" /\ lessons[i].completed_at # NULL
        /\ lessons[j].status = "In Progress" /\ lessons[j].completed_at = NULL
        /\ \E status \in {"New", "In Progress"} :
             LET r == UpdateStatusResult(lessons, i, status, now)
             IN  r.tbl[i].completed_at = NULL /\ r.tbl[j] = lessons[j]

\* C7: every mutating call that has changed the store leaves the cache
\* entirely empty when it returns.
C7_MutationEmptiesCache ==
    [][store' # store => (cache' = EmptyMap /\ cache_timestamp' = EmptyMap)]_vars

\* the filter and tag-list arguments the queries are tried with
StatusFilterArgs == {<<>>, <<"Archived">>, <<"Completed", "Archived">>}

TagIdListArgs == {<<1>>, <<2>>, <<1, 2>>}

FilterArgs ==
    [status_filter : StatusFilterArgs, author_filter : {NULL, 1},
     date_from : {NULL, 1}, date_to : {NULL, 2}, search_query : {NULL, 1},
     year_filter : {NULL, 1}, month_filter : {NULL, 1},
     tag_ids : {<<>>} \cup TagIdListArgs]

\* C8: no query but the lookup by id returns or counts an Archived lesson
\* (each query computed from the store), and get_lesson_by_id returns its row.
C8_ArchivedOnlyById ==
    \A a \in DOMAIN lessons :
        lessons[a].status = "Archived" =>
            /\ \A f \in FilterArgs :
                 /\ a \notin PaginatedLessons(lessons, lesson_tags, f)
                 /\ a \notin SearchTranscripts(lessons, lesson_tags, 1, f)
            /\ ComputeStats(lessons).total
                 <= Cardinality(DOMAIN lessons \ {a})
            /\ ComputeYears(lessons) \subseteq
                 {YearOf(lessons[i].lesson_date) : i \in DOMAIN lessons \ {a}}
            /\ lessons[a] \notin ComputeInProgress(lessons)
            /\ a \notin LessonOfDayPool(lessons)
            /\ a \notin RandomLessonPool(lessons)
            /\ a \notin PrioritySuggestionsPool(lessons)
            /\ \A tag_ids \in TagIdListArgs :
                 lessons[a].id \notin GetLessonsByTagIds(lesson_tags, tag_ids)
            /\ GetLessonById(lessons, lessons[a].id) = <<lessons[a]>>

\* the completion dates of the Completed lessons
CompletionDates(tbl) ==
    {DateOf(tbl[i].completed_at) :
        i \in {j \in DOMAIN tbl : tbl[j].status = "Completed"
                                   /\ tbl[j].completed_at # NULL}}

\* the length of the run of consecutive days of S that ends on day d
RunEndingAt(S, d) ==
    CHOOSE n \in 0 .. Cardinality(S) :
        /\ \A k \in 0 .. (n - 1) : d - k \in S
        /\ d - n \notin S

\* the longest run of consecutive days of S that ends today or yesterday
LongestRunToNow(S, today) ==
    Max({RunEndingAt(S, today), RunEndingAt(S, today - 1)})

\* C9: get_current_streak returns, for any set of completion dates of
\* Completed lessons, the length of the longest run of consecutive days that
\* ends today or yesterday (0 when there is none).
C9_CurrentStreakIsLongestRun ==
    [][CallGetCurrentStreak =>
         ret'.value = LongestRunToNow(CompletionDates(lessons), DateOf(now))]_vars

\* C10: the best streak survives resets: after any step (a status change, a
\* sync, a midnight) get_best_streak is at least what get_current_streak was
\* before the step.
C10_BestStreakSurvives ==
    [][GetBestStreak(lessons', streak_history', now') >= GetCurrentStreak(lessons, now)]_vars

\* the tag lists and filters get_paginated_lessons is tried with
TagListArgs == {<<1>>, <<2>>, <<1, 2>>, <<2, 1>>, <<1, 1>>}

TagFilterArgs ==
    [status_filter : {<<>>, <<"New">>}, author_filter : {NULL, 1},
     date_from : {NULL}, date_to : {NULL}, search_query : {NULL},
     year_filter : {NULL}, month_filter : {NULL}, tag_ids : TagListArgs]

\* the lessons that carry every tag of the list
CarriesAll(lt, lesson_id, tag_ids) ==
    \A k \in DOMAIN tag_ids : <<lesson_id, tag_ids[k]>> \in lt

\* C11: for any non-empty list of tag ids, get_paginated_lessons returns
\* exactly the non-archived lessons matching the other filters that carry
\* every tag of the list.
C11_TagAllMatch ==
    \A f \in TagFilterArgs :
        PaginatedLessons(lessons, lesson_tags, f) =
            {i \in DOMAIN lessons :
                /\ FilterMatch(lessons[i], f)
                /\ CarriesAll(lesson_tags, lessons[i].id, f.tag_ids)}

\* the rows of a table that hold the fingerprint h
RowsWithHash(tbl, h) == {i \in DOMAIN tbl : tbl[i].file_hash = h}

\* C12: a scan with two files of one fingerprint (both names parse):
\* sync_folder returns without raising, and the store then holds exactly one
\* lesson row with that file_hash.
C12_DuplicatesAreOneLesson ==
    \A entries \in Listings :
        LET r == SyncResult(lessons, "lib", entries)
        IN  \A j, k \in DOMAIN entries :
              ( /\ j # k
                /\ entries[j].hash # NoHash
                /\ entries[j].hash = entries[k].hash
                /\ ParseFunc(entries[j].name) # <<>>
                /\ ParseFunc(entries[k].name) # <<>> )
              => /\ ~r.raised
                 /\ Cardinality(RowsWithHash(r.tbl, entries[j].hash)) = 1

\* C13: no step (a sync, a status update) changes the file_hash, author,
\* title or lesson_date of a stored lesson row, a rename to a name with
\* another author and title included.
C13_MetadataImmutable ==
    [][\A i \in DOMAIN lessons :
          /\ i \in DOMAIN lessons'
          /\ lessons'[i].id = lessons[i].id
          /\ lessons'[i].file_hash = lessons[i].file_hash
          /\ lessons'[i].author = lessons[i].author
          /\ lessons'[i].title = lessons[i].title
          /\ lessons'[i].lesson_date = lessons[i].lesson_date]_vars

\* a stored lesson has been renamed to a name that parses to another author
\* and title, and a status update has been applied to it
C13_Witness ==
    \E i \in DOMAIN lessons :
        /\ ParseFunc(lessons[i].filename) # <<>>
        /\ ParseFunc(lessons[i].filename)[1].author # lessons[i].author
        /\ ParseFunc(lessons[i].filename)[1].title # lessons[i].title
        /\ lessons[i].status = "Completed"

\* C14: no sync removes a lesson row (every stored id is still stored after
\* it), and a lesson whose file has vanished from the listing is Archived
\* after the sync instead of deleted.
C14_RowsNeverRemoved ==
    \A entries \in Listings :
        LET r == SyncResult(lessons, "lib", entries)
        IN  \A i \in DOMAIN lessons :
              /\ i \in DOMAIN r.tbl
              /\ r.tbl[i].id = lessons[i].id
              /\ (~r.raised /\ lessons[i].file_hash \notin ObservedHashes(entries))
                   => r.tbl[i].status = "Archived"

\* no step removes a lesson row or changes its id
LessonIdsOnlyGrow ==
    [][\A i \in DOMAIN lessons :
          i \in DOMAIN lessons' /\ lessons'[i].id = lessons[i].id]_vars

\* the files of a listing that hash, whose name parses and whose fingerprint
\* is not stored
NewFiles(tbl, entries) ==
    {k \in DOMAIN entries : /\ entries[k].hash # NoHash
                            /\ ParseFunc(entries[k].name) # <<>>
                            /\ ~InLookup(tbl, entries[k].hash)}

\* C15: for every scanned file whose name parses and whose fingerprint is
\* not stored, sync_folder creates exactly one row with that file_hash, the
\* parsed author, title and lesson_date, status New and completed_at null,
\* and counts it in added; the rows stored before keep their ids.
C15_NewFileIsOneNewRow ==
    \A entries \in Listings :
        LET r == SyncResult(lessons, "lib", entries)
        IN  /\ \A i \in DOMAIN lessons :
                 i \in DOMAIN r.tbl /\ r.tbl[i].id = lessons[i].id
            /\ \A k \in NewFiles(lessons, entries) :
                 /\ ~r.raised
                 /\ r.stats.added = Cardinality(NewFiles(lessons, entries))
                 /\ Cardinality(RowsWithHash(r.tbl, entries[k].hash)) = 1
                 /\ \A i \in RowsWithHash(r.tbl, entries[k].hash) :
                      /\ i \notin DOMAIN lessons
                      /\ r.tbl[i].author = ParseFunc(entries[k].name)[1].author
                      /\ r.tbl[i].title = ParseFunc(entries[k].name)[1].title
                      /\ r.tbl[i].lesson_date = ParseFunc(entries[k].name)[1].lesson_date
                      /\ r.tbl[i].status = "New"
                      /\ r.tbl[i].completed_at = NULL

BadFiles(entries) ==
    {k \in DOMAIN entries : \/ entries[k].hash = NoHash
                            \/ ParseFunc(entries[k].name) = <<>>}

\* a bad file listed before two files that hash and parse
BadFileListings ==
    {<<b, e1, e2>> : b \in {e \in Entries : e.name = 0},
                     e1 \in {e \in Readable : e.name = 1},
                     e2 \in {e \in Readable : e.name = 2}}

\* C17: in a scan that holds files that cannot be hashed or do not parse,
\* sync_folder returns its counts with each of them in errors, inserts none
\* of them, and every other file of the scan is in the store afterwards under
\* its fingerprint and the path of a scanned file of that fingerprint.
C17_BadFileDoesNotAbort ==
    \A entries \in Listings \cup BadFileListings :
        LET r == SyncResult(lessons, "lib", entries)
            bad == BadFiles(entries)
        IN  bad # {} =>
              /\ ~r.raised
              /\ r.stats.errors = Cardinality(bad)
              /\ \A k \in bad, i \in DOMAIN r.tbl \ DOMAIN lessons :
                   r.tbl[i].filename # entries[k].name
              /\ \A j \in DOMAIN entries \ bad :
                   \E i \in RowsWithHash(r.tbl, entries[j].hash) :
                     \E m \in DOMAIN entries \ bad :
                       /\ entries[m].hash = entries[j].hash
                       /\ r.tbl[i].filepath = Filepath("lib", entries[m].name)

\* C18: a sync_folder call in which a statement of the batch fails leaves
\* the lessons table equal to its state before the call.
C18_FailedSyncChangesNothing ==
    \A entries \in Listings :
        LET r == SyncResult(lessons, "lib", entries)
        IN  r.raised => r.tbl = lessons

\* lessons are stored, and a scan whose second INSERT fails after the first
\* one has written its row leaves the table as it was
C18_Witness ==
    /\ lessons # <<>>
    /\ \E entries \in Listings :
         LET c == Classify(lessons, "lib", FileData(entries), 1,
                           [to_insert |-> <<>>, to_update |-> <<>>,
                            current_hashes |-> {}, stats |-> ZeroStats])
             ins == ApplyInserts(lessons, c.to_insert, 1)
         IN  /\ ~ins.ok
             /\ Len(ins.tbl) = Len(lessons) + 1
             /\ SyncResult(lessons, "lib", entries).raised
             /\ SyncResult(lessons, "lib", entries).tbl = lessons

\* the tag rows of a name
TagsNamed(tgs, name) == {t \in tgs : t.name = name}

ReferencesExist(tbl, tgs, lt) ==
    \A p \in lt : /\ \E i \in DOMAIN tbl : tbl[i].id = p[1]
                  /\ \E t \in tgs : t.id = p[2]

\* C20: after every step each association refers to a stored lesson and a
\* stored tag; a delete_tag step removes that tag and exactly the
\* associations of that tag and changes no lesson row; an add_tag_to_lesson
\* step with an id that is not stored creates no association.
C20_DeleteTagCascades ==
    [][/\ ReferencesExist(lessons', tags', lesson_tags')
       /\ \A tag_id \in TagIds :
            DeleteTag(tag_id) =>
              /\ tags' = {t \in tags : t.id # tag_id}
              /\ lesson_tags' = {p \in lesson_tags : p[2] # tag_id}
              /\ lessons' = lessons
       /\ \A lesson_id \in LessonIds, tag_id \in TagIds :
            ( /\ AddTagToLesson(lesson_id, tag_id)
              /\ \/ \A i \in DOMAIN lessons : lessons[i].id # lesson_id
                 \/ \A t \in tags : t.id # tag_id )
            => lesson_tags' = lesson_tags]_vars

\* the first tag has been deleted, the second one is stored, and a lesson
\* carries it
C20_Witness ==
    /\ tag_seq = 2
    /\ \A t \in tags : t.id = 2
    /\ \E p \in lesson_tags : p[2] = 2
    /\ Len(lessons) = 2

HasHyphen(text) == \E k \in 1..Len(text) : text[k] = "-"

\* the places of a body at which ' - ' stands
SeparatorPlaces(body) ==
    {k \in 1..(Len(body) - 2) :
        body[k] = " " /\ body[k + 1] = "-" /\ body[k + 2] = " "}

\* the name ends in a date of the calendar and '.mp4'
EndsInValidDate(clean) ==
    /\ Len(clean) >= 14
    /\ SubSeq(clean, Len(clean) - 3, Len(clean)) = <<".", "m", "p", "4">>
    /\ IsDateText(DateTextOf(clean))
    /\ Strptime(DateTextOf(clean)) # <<>>

\* C21: parse_filename on '<author> DD-MM-YYYY.mp4', where the author is any
\* text of letters and blanks and no ' - ' separator occurs, returns that
\* author as author and as title, with the date of the name.
C21_NoSeparatorAuthorIsTitle ==
    LET clean == Strip(filename)
    IN  (/\ ret.call = "parse_filename"
         /\ EndsInValidDate(clean)
         /\ ~HasHyphen(BodyOf(clean))
         /\ RStrip(BodyOf(clean)) # <<>>
         /\ RStrip(BodyOf(clean)) # BodyOf(clean))
        => /\ ret.value # <<>>
           /\ ret.value[1].author = RStrip(BodyOf(clean))
           /\ ret.value[1].title = RStrip(BodyOf(clean))
           /\ ret.value[1].lesson_date = Strptime(DateTextOf(clean))[1]

\* C22: parse_filename on '<author> - <title> DD-MM-YYYY.mp4' with a date of
\* the calendar returns the trimmed author in front of the first ' - ', the
\* trimmed title behind it and the date; a name that has neither form, or a
\* date that is not in the calendar, gives None.
C22_PrimaryGrammarParses ==
    LET clean == Strip(filename)
        body == BodyOf(clean)
        k == CHOOSE x \in SeparatorPlaces(body) :
                 \A y \in SeparatorPlaces(body) : x <= y
        author == Strip(SubSeq(body, 1, k - 1))
        title == Strip(SubSeq(body, k + 3, Len(body)))
    IN  ret.call = "parse_filename" =>
          /\ (/\ EndsInValidDate(clean)
              /\ SeparatorPlaces(body) # {}
              /\ body[Len(body)] = " "
              /\ author # <<>>
              /\ title # <<>>)
             => /\ ret.value # <<>>
                /\ ret.value[1].author = author
                /\ ret.value[1].title = title
                /\ ret.value[1].lesson_date = Strptime(DateTextOf(clean))[1]
          /\ (\/ Len(clean) < 14
              \/ ~IsMp4Suffix(clean)
              \/ ~IsDateText(DateTextOf(clean))
              \/ Strptime(DateTextOf(clean)) = <<>>
              \/ (~HasHyphen(body) /\ (body = <<>> \/ RStrip(body) = body)))
             => ret.value = <<>>

\* parse_filename on the primary form when no hyphen stands in the author:
\* the author, the title and the date of the name are returned
PrimaryParsesWithoutHyphenInAuthor ==
    LET clean == Strip(filename)
        body == BodyOf(clean)
        k == CHOOSE x \in SeparatorPlaces(body) :
                 \A y \in SeparatorPlaces(body) : x <= y
        author == Strip(SubSeq(body, 1, k - 1))
        title == Strip(SubSeq(body, k + 3, Len(body)))
    IN  (/\ ret.call = "parse_filename"
         /\ EndsInValidDate(clean)
         /\ SeparatorPlaces(body) # {}
         /\ body[Len(body)] = " "
         /\ author # <<>>
         /\ title # <<>>
         /\ ~HasHyphen(author))
        => /\ ret.value # <<>>
           /\ ret.value[1].author = author
           /\ ret.value[1].title = title
           /\ ret.value[1].lesson_date = Strptime(DateTextOf(clean))[1]

\* parse_filename on the form without separator when the author is one
\* word: the author is returned as author and as title
OneWordAuthorIsTitle ==
    LET clean == Strip(filename)
    IN  (/\ ret.call = "parse_filename"
         /\ EndsInValidDate(clean)
         /\ ~HasHyphen(BodyOf(clean))
         /\ RStrip(BodyOf(clean)) # <<>>
         /\ RStrip(BodyOf(clean)) # BodyOf(clean)
         /\ \A j \in 1..Len(RStrip(BodyOf(clean))) : BodyOf(clean)[j] # " ")
        => /\ ret.value # <<>>
           /\ ret.value[1].author = RStrip(BodyOf(clean))
           /\ ret.value[1].title = RStrip(BodyOf(clean))
           /\ ret.value[1].lesson_date = Strptime(DateTextOf(clean))[1]

\* C23: get_daily_progress and get_weekly_progress return a percentage
\* between 0 and 100, equal to the uncapped percentage when that is at most
\* 100 and to 100 otherwise, and is_overachieved is true exactly when the
\* uncapped percentage is above 100, for every completion count and every
\* stored goal that is an integer, 0 and negative goals included.
C23_ProgressIsCappedRatio ==
    ret.call \in {"get_daily_progress", "get_weekly_progress"} =>
        /\ ret.value.percentage.num >= 0
        /\ ~Exceeds(ret.value.percentage, 100)
        /\ ret.value.percentage =
             (IF Exceeds(ret.value.actual_percentage, 100)
              THEN [num |-> 100, den |-> 1]
              ELSE ret.value.actual_percentage)
        /\ ret.value.is_overachieved <=> Exceeds(ret.value.actual_percentage, 100)

\* with a goal above 0 the flag and the percentage agree
OverachievedAgreesForPositiveGoal ==
    (/\ ret.call \in {"get_daily_progress", "get_weekly_progress"}
     /\ ret.value.goal > 0)
    => /\ ret.value.actual_percentage =
            [num |-> ret.value.completed * 100, den |-> ret.value.goal]
       /\ ret.value.percentage.num >= 0
       /\ ~Exceeds(ret.value.percentage, 100)
       /\ ret.value.is_overachieved <=> Exceeds(ret.value.actual_percentage, 100)

\* C24: sync_folder sets no lesson to Archived whose fingerprint the scan
\* observed among the files of the directory, whatever the name of the file.
C24_ObservedNeverArchived ==
    \A entries \in Listings :
        LET r == SyncResult(lessons, "lib", entries)
        IN  \A i \in DOMAIN lessons :
              ( /\ lessons[i].status # "Archived"
                /\ lessons[i].file_hash \in ObservedHashes(entries) )
              => r.tbl[i].status # "Archived"

\* sync_folder sets no lesson to Archived whose fingerprint the scan found
\* under a name that parses
ClassifiedNeverArchived ==
    \A entries \in Listings :
        LET r == SyncResult(lessons, "lib", entries)
        IN  \A i \in DOMAIN lessons :
              ( /\ lessons[i].status # "Archived"
                /\ lessons[i].file_hash \in ClassifiedHashes(entries) )
              => r.tbl[i].status # "Archived"

\* C25: a lesson that is Archived stays Archived through every update_status
\* and every sync_folder call.
C25_ArchivedIsTerminal ==
    [][\A i \in DOMAIN lessons :
          lessons[i].status = "Archived" => lessons'[i].status = "Archived"]_vars

\* a lesson that is Archived stays Archived through every sync_folder call
ArchivedSurvivesSync ==
    \A entries \in Listings :
        LET r == SyncResult(lessons, "lib", entries)
        IN  \A i \in DOMAIN lessons :
              lessons[i].status = "Archived" => r.tbl[i].status = "Archived"

\* C26: update_status with a status that is none of New, In Progress and
\* Completed, or with a lesson id that is not stored, does not return True
\* and leaves every row as it was.
C26_UpdateStatusReportsMiss ==
    \A lesson_id \in LessonIds, status \in StatusArgs :
        LET r == UpdateStatusResult(lessons, lesson_id, status, now)
        IN  ( \/ status \notin {"New", "In Progress", "Completed"}
              \/ lesson_id \notin DOMAIN lessons )
            => /\ r.ret = FALSE
               /\ r.tbl = lessons

\* update_status with a status that is none of New, In Progress and Completed
\* returns False, and neither that call nor one with an id that is not stored
\* changes a row
RefusedStatusAndMissChangeNothing ==
    \A lesson_id \in LessonIds, status \in StatusArgs :
        LET r == UpdateStatusResult(lessons, lesson_id, status, now)
        IN  /\ status \notin {"New", "In Progress", "Completed"}
               => r.ret = FALSE /\ r.tbl = lessons
            /\ lesson_id \notin DOMAIN lessons => r.tbl = lessons

GetterCalls == {"get_stats", "get_in_progress_lessons",
                "get_years_with_lessons", "get_all_tags"}

\* the value a getter computes from the store
FreshValue(call) ==
    CASE call = "get_stats" -> ComputeStats(lessons)
      [] call = "get_in_progress_lessons" -> ComputeInProgress(lessons)
      [] call = "get_years_with_lessons" -> ComputeYears(lessons)
      [] call = "get_all_tags" -> ComputeAllTags(tags)

CacheKey(call) ==
    CASE call = "get_stats" -> "stats"
      [] call = "get_in_progress_lessons" -> "in_progress_10"
      [] call = "get_years_with_lessons" -> "years"
      [] call = "get_all_tags" -> "all_tags"

\* C27: a call of get_stats, get_in_progress_lessons, get_years_with_lessons
\* or get_all_tags returns the stored value, and leaves the cache as it is,
\* when the entry is in the cache (no invalidation since it was written) and
\* was written less than 5 seconds earlier; in every other case it returns
\* the value computed from the store and stores it under the time of the call.
C27_CacheHitOnlyWithinTtl ==
    \A call \in GetterCalls :
        LET key == CacheKey(call)
            r == CachedGet(cache, cache_timestamp, key, FreshValue(call), now)
        IN  IF /\ key \in DOMAIN cache
               /\ key \in DOMAIN cache_timestamp
               /\ now - cache_timestamp[key] < 5
            THEN /\ r.ret = cache[key]
                 /\ r.cache = cache
                 /\ r.cache_timestamp = cache_timestamp
            ELSE /\ r.ret = FreshValue(call)
                 /\ r.cache[key] = FreshValue(call)
                 /\ r.cache_timestamp[key] = now

\* no invalidation since second 0; the statistics stored at second 0 are
\* exactly 5 seconds old and no longer those of the store, the years stored
\* at second 1 are still valid
C27_Witness ==
    /\ now = 5
    /\ "stats" \in DOMAIN cache_timestamp
    /\ cache_timestamp["stats"] = 0
    /\ cache["stats"] # ComputeStats(lessons)
    /\ "years" \in DOMAIN cache_timestamp
    /\ cache_timestamp["years"] = 1

\* C28: every sync_folder call on an existing, readable directory returns
\* counts with added + updated + unchanged + errors equal to the number of
\* .mp4 files the scan enumerated, whatever the value of archived.
C28_CountsCoverEveryFile ==
    \A entries \in Listings :
        LET r == SyncResult(lessons, "lib", entries)
        IN  /\ ~r.raised
            /\ r.stats.added + r.stats.updated + r.stats.unchanged
                 + r.stats.errors = Len(entries)

\* the counts of a sync_folder call that returns cover every file of the scan
ReturnedCountsCoverEveryFile ==
    \A entries \in Listings :
        LET r == SyncResult(lessons, "lib", entries)
        IN  ~r.raised =>
              r.stats.added + r.stats.updated + r.stats.unchanged
                + r.stats.errors = Len(entries)

\* C29: under every interleaving of concurrent DatabaseManager(...) calls
\* one object is created, every caller gets it, no call fails, and the
\* instance is initialised once: _init_db runs once, and once _initialized is
\* True no construction writes db_path or replaces the cache maps.
C29_SingletonInitialisedOnce ==
    /\ singleton.objects <= 1
    /\ singleton.init_db_runs <= 1
    /\ \A t \in 1..MaxThreads :
         /\ ~threads[t].pc = "raised"
         /\ threads[t].self # NULL => threads[t].self = singleton.instance
         /\ singleton.initialized = "true" =>
              threads[t].pc \notin {"init_path", "init_cache", "init_timestamp",
                                    "init_db"}

\* one object is created and every caller that returns gets it
OneObjectForEveryCaller ==
    /\ singleton.objects <= 1
    /\ \A t \in 1..MaxThreads :
         threads[t].self # NULL => threads[t].self = singleton.instance

\* C30: while a playlist is active its index stays within the list and the
\* selected lesson is the one at the index; playlist_next at the last index
\* and playlist_prev at index 0 change nothing; complete_and_next sets the
\* given lesson to Completed and moves as playlist_next does; exit_playlist
\* leaves an empty list, index 0 and no selection.
C30_PlaylistStaysInBounds ==
    LET ids == SessionGet(session_state, "playlist_ids", <<>>)
        index == SessionGet(session_state, "playlist_index", 0)
        selected == SessionGet(session_state, "selected_lesson_id", NULL)
        left == ExitPlaylistResult(session_state)
    IN  /\ ids # <<>> =>
             /\ 0 <= index
             /\ index < Len(ids)
             /\ selected = ids[index + 1]
             /\ index = Len(ids) - 1 =>
                  PlaylistNextResult(session_state) = session_state
             /\ index = 0 => PlaylistPrevResult(session_state) = session_state
             /\ index < Len(ids) - 1 =>
                  /\ PlaylistNextResult(session_state)["playlist_index"] = index + 1
                  /\ PlaylistNextResult(session_state)["selected_lesson_id"]
                       = ids[index + 2]
             /\ \A lesson_id \in DOMAIN lessons :
                  LET r == CompleteAndNextResult(lessons, session_state,
                                                 lesson_id, now)
                  IN  /\ r.tbl[lesson_id].status = "Completed"
                      /\ r.ss = PlaylistNextResult(session_state)
        /\ left["playlist_ids"] = <<>>
        /\ left["playlist_index"] = 0
        /\ left["selected_lesson_id"] = NULL

\* a playlist of three lessons stands at its second one after a lesson was
\* completed through complete_and_next
C30_Witness ==
    /\ Len(SessionGet(session_state, "playlist_ids", <<>>)) = 3
    /\ SessionGet(session_state, "playlist_index", 0) = 1
    /\ SessionGet(session_state, "selected_lesson_id", NULL)
         = session_state["playlist_ids"][2]
    /\ \E i \in DOMAIN lessons : lessons[i].status = "Completed"

====
